---- MODULE Spec2Model ----
(***************************************************************************)
(* Cornwall: a file-backed multi-track session tool.  The model covers the *)
(* state store (cornwall/state.py), the track and effect commands          *)
(* (scripts/track.py, scripts/fx.py) and the render / playback commands    *)
(* (scripts/play.py).  One invocation of the tool runs at a time.  An      *)
(* invocation takes one step per external command (sox, play), per signal  *)
(* it sends, and two steps per state file it writes: the file is opened,   *)
(* which truncates it, and then its new content arrives.                   *)
(***************************************************************************)
EXTENDS Integers, Sequences, FiniteSets, TLC

\* Bound of the model: add_track is not taken once the next id would exceed it.
MaxId == 3

\* Python's None, as stored in a track's "source" field.
None == "None"
\* Audio files that exist on the host and can be imported.
Files == {"a.wav"}
\* Paths an import may name: the existing files and one that does not exist.
ImportPaths == Files \cup {"missing.wav"}
\* The project's canonical mix location and a caller-supplied --output path.
MixWav == "mix.wav"
OutputArgs == {None, "out.wav"}
\* Bound of the model: no effect is added once the project holds this many.
MaxEffects == 2
\* The effects a request may add: one of the catalog without parameters, and
\* one that is not in the catalog, with a parameter.
EffectChoices ==
  {[name |-> "reverb", params |-> <<>>],
   [name |-> "gain", params |-> <<<<"db", [num |-> TRUE, v |-> 3]>>>>]}
\* Bound of the model: the process identifiers the host hands out.
MaxPid == 2
Pids == 1..MaxPid

VARIABLES
  projectExists,  \* state/project.json exists
  tracks,         \* state/tracks.json: the stored track list, in storage order
  effects,        \* state/effects.json: track id -> effect chain
  torn,           \* state files opened for writing and not yet written
  assigned,       \* the highest track id handed out in the project so far
  pidFile,        \* state/.playback.pid: the persisted handle, NoPid if no file
  procs,          \* the host's process table: pid -> "free", "player" (a
                  \* player this tool started), "other" (another process of
                  \* the user), "foreign" (a process of another user)
  tmpFiles,       \* files present in a temporary directory of the pipeline
  pc,             \* position of the running invocation ("idle": none runs)
  inv,            \* the running invocation: command and arguments
  writes,         \* state-file writes the invocation has still to make
  active,         \* local `active` of cmd_mix / cmd_loop
  k,              \* index into active of the next track to render
  tmp_files,      \* local `tmp_files` of cmd_mix / cmd_loop
  pid,            \* local `pid` of cmd_loop / cmd_stop
  file_to_loop,   \* local `file_to_loop` of cmd_loop
  proc,           \* local `proc` of cmd_loop: the pid of the started player
  cmds,           \* external commands issued by the invocation
  signals,        \* signals sent by the invocation
  outFile,        \* what the invocation has done to the final output path
  exit,           \* how the invocation ended
  report,         \* what the invocation printed about playback
  last            \* the playback command that ended just before a stop or
                  \* status request: [cmd, exit, report]

vars == <<projectExists, tracks, effects, torn, assigned, pidFile, procs,
          tmpFiles, pc, inv, writes, active, k, tmp_files, pid, file_to_loop,
          proc, cmds, signals, outFile, exit, report, last>>

projVars == <<projectExists, tracks, effects>>
storeVars == <<projVars, torn, assigned, writes>>
hostVars == <<pidFile, procs, tmpFiles>>
pipeLocals == <<active, k, tmp_files, cmds, outFile>>
playLocals == <<pid, file_to_loop, proc, signals>>

NoInv ==
  [cmd |-> "none", no_play |-> FALSE, output |-> None, target |-> None,
   track_id |-> 0, index |-> 0]
Invocation(name) == [NoInv EXCEPT !.cmd = name]

\* get_playback_pid's None, and the pid field of a report that names none.
NoPid == 0
\* A pid file whose content int() rejects, such as an empty file.
Unparsable == -1

NoReport == [msg |-> "none", pid |-> NoPid]

PlaybackCmds == {"loop", "stop", "status"}
NoLast == [cmd |-> "none", exit |-> "none", report |-> NoReport]

----------------------------------------------------------------------------
(* cornwall/state.py *)

Ids(ts) == {ts[i].id : i \in 1..Len(ts)}

SetMax(S) == CHOOSE m \in S : \A x \in S : x <= m

next_track_id(ts) == IF ts = <<>> THEN 1 ELSE SetMax(Ids(ts)) + 1

\* get_track's None: a record no stored track equals (ids start at 1).
NoTrack ==
  [id |-> 0, source |-> None, volume |-> 0, mute |-> FALSE, solo |-> FALSE]

\* get_track: the first stored track with the id, or None.
get_track(ts, id) ==
  IF id \in Ids(ts)
  THEN ts[CHOOSE i \in 1..Len(ts) :
             ts[i].id = id /\ \A j \in 1..(i - 1) : ts[j].id /= id]
  ELSE NoTrack

NewTrack(id) ==
  [id |-> id, source |-> None, volume |-> 100, mute |-> FALSE, solo |-> FALSE]

\* A dict with key kk set to v.
Put(f, kk, v) == [x \in DOMAIN f \cup {kk} |-> IF x = kk THEN v ELSE f[x]]
\* dict.pop(kk, None)
Pop(f, kk) == [x \in DOMAIN f \ {kk} |-> f[x]]

EmptyDict == [x \in {} |-> <<>>]

\* Truthiness of t["source"].
HasSource(t) == t.source /= None

\* Variant: the solo filter does not ask for a source.
IsSolo_AnySource(t) == t.solo

IsSolo(t) == t.solo /\ HasSource(t)

\* Variant: the mute filter does not ask for a source.
IsUnmuted_AnySource(t) == ~t.mute

IsUnmuted(t) == ~t.mute /\ HasSource(t)

\* Variant: the selected tracks are returned last first.
get_active_tracks_Reversed(ts) ==
  LET solo_tracks == SelectSeq(ts, IsSolo)
      sel == IF solo_tracks /= <<>> THEN solo_tracks
             ELSE SelectSeq(ts, IsUnmuted)
  IN  [i \in 1..Len(sel) |-> sel[Len(sel) + 1 - i]]

\* Variant: a muted track is dropped from the solo branch too.
get_active_tracks_MuteWins(ts) ==
  LET solo_tracks == SelectSeq(ts, LAMBDA t : IsSolo(t) /\ ~t.mute)
  IN  IF solo_tracks /= <<>> THEN solo_tracks ELSE SelectSeq(ts, IsUnmuted)

get_active_tracks(ts) ==
  LET solo_tracks == SelectSeq(ts, IsSolo)
  IN  IF solo_tracks /= <<>> THEN solo_tracks ELSE SelectSeq(ts, IsUnmuted)

get_track_effects(fx, id) == IF id \in DOMAIN fx THEN fx[id] ELSE <<>>

\* add_effect's store update: the effect is appended to the track's chain.
add_effect(fx, id, e) == Put(fx, id, Append(get_track_effects(fx, id), e))

\* Variant: the last effect is moved into the place of the removed one.
PopAt_SwapLast(chain, index) ==
  [i \in 1..(Len(chain) - 1) |->
     IF i = index + 1 THEN chain[Len(chain)] ELSE chain[i]]

\* chain.pop(index) for 0 <= index < len(chain): what is left of the chain.
PopAt(chain, index) ==
  SubSeq(chain, 1, index) \o SubSeq(chain, index + 2, Len(chain))

\* remove_effect's test of the index (line 213).
IndexInRange(fx, id, index) ==
  ~(index < 0 \/ index >= Len(get_track_effects(fx, id)))

\* remove_effect's store update.
remove_effect(fx, id, index) ==
  Put(fx, id, PopAt(get_track_effects(fx, id), index))

\* clear_effects' store update.
clear_effects(fx, id) == Put(fx, id, <<>>)

----------------------------------------------------------------------------
(* cornwall/sox_effects.py *)
(* An effect is [name, params]; params is the ordered parameter map, a     *)
(* sequence of <<key, value>> with distinct keys; a value is a number      *)
(* [num |-> TRUE, v |-> n] or a string [num |-> FALSE, v |-> s].           *)

\* str(v)
Str(v) == IF v.num THEN ToString(v.v) ELSE v.v

\* key in params
HasKey(params, key) == \E i \in 1..Len(params) : params[i][1] = key

\* params[key]
Lookup(params, key) ==
  params[CHOOSE i \in 1..Len(params) : params[i][1] = key][2]

\* str(params.get(key, default)), the default given as its str()
GetStr(params, key, default) ==
  IF HasKey(params, key) THEN Str(Lookup(params, key)) ELSE default

\* if key in params: args.append(str(params[key]))
Opt(params, key) ==
  IF HasKey(params, key) THEN <<Str(Lookup(params, key))>> ELSE <<>>

\* Variant: the keys are passed along with the values, as key=value.
Values_WithKeys(params) ==
  [i \in 1..Len(params) |-> params[i][1] \o "=" \o Str(params[i][2])]

\* for v in params.values(): args.append(str(v))
Values(params) == [i \in 1..Len(params) |-> Str(params[i][2])]

\* The names the if/elif chain of lines 17-93 tests for.
Catalog ==
  {"reverb", "delay", "chorus", "flanger", "phaser", "tremolo", "overdrive",
   "compressor", "eq", "bass", "treble", "lowpass", "highpass", "pitch",
   "tempo", "norm", "fade"}

\* Variant: every effect is passed through as a raw effect, its name and then
\* its parameter values.
effect_args_Raw(fx) == <<fx.name>> \o Values(fx.params)

\* The tokens one effect contributes: one branch of the if/elif chain.
effect_args(fx) ==
  LET name == fx.name
      p == fx.params
  IN  CASE name = "reverb" ->
             <<"reverb">> \o Opt(p, "reverberance") \o Opt(p, "hf_damping")
                          \o Opt(p, "room_scale")
        [] name = "delay" ->
             <<"echo", GetStr(p, "gain_in", "0.8"), GetStr(p, "gain_out", "0.9"),
               GetStr(p, "delay_ms", "500"), GetStr(p, "decay", "0.3")>>
        [] name = "chorus" ->
             <<"chorus", GetStr(p, "gain_in", "0.7"), GetStr(p, "gain_out", "0.9"),
               GetStr(p, "delay_ms", "55"), GetStr(p, "decay", "0.4"),
               GetStr(p, "speed", "0.25"), "-" \o GetStr(p, "shape", "s")>>
        [] name = "flanger" -> <<"flanger">>
        [] name = "phaser" -> <<"phaser">>
        [] name = "tremolo" ->
             <<"tremolo", GetStr(p, "speed", "6")>> \o Opt(p, "depth")
        [] name = "overdrive" -> <<"overdrive", GetStr(p, "gain", "20")>>
        [] name = "compressor" ->
             <<"compand", GetStr(p, "attack_decay", "0.3,1"),
               GetStr(p, "transfer", "6:-70,-60,-20")>>
        [] name = "eq" ->
             <<"equalizer", GetStr(p, "frequency", "1000"),
               GetStr(p, "width", "1q"), GetStr(p, "gain", "0")>>
        [] name = "bass" -> <<"bass", GetStr(p, "gain", "0")>>
        [] name = "treble" -> <<"treble", GetStr(p, "gain", "0")>>
        [] name = "lowpass" -> <<"lowpass", GetStr(p, "frequency", "3000")>>
        [] name = "highpass" -> <<"highpass", GetStr(p, "frequency", "300")>>
        [] name = "pitch" -> <<"pitch", GetStr(p, "cents", "0")>>
        [] name = "tempo" -> <<"tempo", GetStr(p, "factor", "1.0")>>
        [] name = "norm" -> <<"norm">> \o Opt(p, "level")
        [] name = "fade" ->
             <<"fade", GetStr(p, "type", "t"), GetStr(p, "fade_in", "0"),
               GetStr(p, "stop", "0"), GetStr(p, "fade_out", "0")>>
        [] OTHER -> <<name>> \o Values(p)

\* Variant: the groups are put together last effect first.
RECURSIVE compile_chain_Reversed(_)
compile_chain_Reversed(chain) ==
  IF chain = <<>> THEN <<>>
  ELSE compile_chain_Reversed(Tail(chain)) \o effect_args(Head(chain))

\* The loop of lines 13-98: args grows by one effect's tokens per iteration.
RECURSIVE compile_chain(_)
compile_chain(chain) ==
  IF chain = <<>> THEN <<>>
  ELSE effect_args(Head(chain)) \o compile_chain(Tail(chain))

build_sox_effects(fx, track_id) == compile_chain(get_track_effects(fx, track_id))

----------------------------------------------------------------------------
(* How an invocation moves on.  Every step either ends the invocation,     *)
(* leaving its exit status and what it printed, or moves to its next step. *)

Finish(status, rep) ==
  /\ pc' = "done"
  /\ exit' = status
  /\ report' = rep

Continue(next) ==
  /\ pc' = next
  /\ exit' = "none"
  /\ report' = NoReport

\* The shell gets control back: the invocation's locals are gone.  What is
\* remembered of it is how a playback command ended.
Return ==
  /\ pc = "done"
  /\ pc' = "idle"
  /\ last' = IF inv.cmd \in PlaybackCmds
             THEN [cmd |-> inv.cmd, exit |-> exit, report |-> report]
             ELSE NoLast
  /\ inv' = NoInv
  /\ exit' = "none"
  /\ report' = NoReport
  /\ active' = <<>>
  /\ k' = 0
  /\ tmp_files' = <<>>
  /\ cmds' = <<>>
  /\ outFile' = "untouched"
  /\ pid' = NoPid
  /\ file_to_loop' = None
  /\ proc' = NoPid
  /\ signals' = <<>>
  /\ UNCHANGED <<storeVars, hostVars>>

\* A command that only reads and writes the state store.
StoreCommand(name) ==
  /\ pc = "idle"
  /\ inv' = Invocation(name)
  /\ last' = NoLast
  /\ UNCHANGED <<hostVars, pipeLocals, playLocals>>

----------------------------------------------------------------------------
(* cornwall/state.py: writing the state files *)

\* The write _write_json(path, data) of one state file.
Write(file, data) == [file |-> file, data |-> data]

\* The command goes on to write the state files of ws, in that order.
Save(ws) ==
  /\ writes' = ws
  /\ Continue("write")
  /\ UNCHANGED <<projVars, torn>>

\* The command ends with an error before it has written anything.
Fail(status) ==
  /\ Finish(status, NoReport)
  /\ UNCHANGED <<projVars, torn, writes>>

\* _write_json, line 39: open(path, "w") creates the file or truncates it.
write_open ==
  /\ pc = "write"
  /\ torn' = torn \cup {Head(writes).file}
  /\ projectExists' = (projectExists \/ Head(writes).file = "project")
  /\ pc' = "dump"
  /\ UNCHANGED <<tracks, effects, assigned, writes, hostVars, inv, pipeLocals,
                 playLocals, exit, report, last>>

\* _write_json, lines 40-41: the data is dumped and the file closed.
write_dump ==
  /\ pc = "dump"
  /\ LET w == Head(writes)
     IN  /\ torn' = torn \ {w.file}
         /\ tracks' = IF w.file = "tracks" THEN w.data ELSE tracks
         /\ effects' = IF w.file = "effects" THEN w.data ELSE effects
  /\ writes' = Tail(writes)
  /\ IF Tail(writes) = <<>> THEN Finish("ok", NoReport) ELSE Continue("write")
  /\ UNCHANGED <<projectExists, assigned, hostVars, inv, pipeLocals,
                 playLocals, last>>

----------------------------------------------------------------------------
(* scripts/project.py, scripts/track.py *)

\* project.py create -> state.create_project: project.json, tracks.json,
\* effects.json and mix.json are written, in that order.
create_project ==
  /\ StoreCommand("create")
  /\ assigned' = 0
  /\ Save(<<Write("project", TRUE), Write("tracks", <<>>),
            Write("effects", EmptyDict), Write("mix", TRUE)>>)

\* state.add_track's store update.
add_track(ts, fx, id) ==
  [tracks |-> Append(ts, NewTrack(id)), effects |-> Put(fx, id, <<>>)]

\* track.py add -> state.add_track
cmd_add ==
  /\ StoreCommand("add")
  /\ IF ~projectExists
     THEN Fail("NoProject") /\ UNCHANGED assigned
     ELSE LET id == next_track_id(tracks)
              new == add_track(tracks, effects, id)
          IN  /\ id <= MaxId
              /\ assigned' = IF id > assigned THEN id ELSE assigned
              /\ Save(<<Write("tracks", new.tracks),
                        Write("effects", new.effects)>>)

\* Variant: the track's effect chain is left in effects.json.
remove_track_KeepChain(ts, fx, id) ==
  [tracks |-> SelectSeq(ts, LAMBDA t : t.id /= id), effects |-> fx]

\* state.remove_track's store update.
remove_track(ts, fx, id) ==
  [tracks |-> SelectSeq(ts, LAMBDA t : t.id /= id), effects |-> Pop(fx, id)]

\* track.py remove -> state.remove_track
cmd_remove(id) ==
  /\ StoreCommand("remove")
  /\ UNCHANGED assigned
  /\ IF id \notin Ids(tracks)
     THEN Fail("TrackNotFound")
     ELSE LET new == remove_track(tracks, effects, id)
          IN  Save(<<Write("tracks", new.tracks),
                     Write("effects", new.effects)>>)

\* state.update_track(track_id, **fields) with one field.
update_track(ts, id, field, v) ==
  [i \in 1..Len(ts) |->
     IF ts[i].id = id THEN [ts[i] EXCEPT ![field] = v] ELSE ts[i]]

\* track.py solo | unsolo | mute | unmute
cmd_flag(name, id, field, v) ==
  /\ StoreCommand(name)
  /\ UNCHANGED assigned
  /\ IF id \notin Ids(tracks)
     THEN Fail("TrackNotFound")
     ELSE Save(<<Write("tracks", update_track(tracks, id, field, v))>>)

cmd_solo(id) == cmd_flag("solo", id, "solo", TRUE)
cmd_unsolo(id) == cmd_flag("unsolo", id, "solo", FALSE)
cmd_mute(id) == cmd_flag("mute", id, "mute", TRUE)
cmd_unmute(id) == cmd_flag("unmute", id, "mute", FALSE)

\* track.py import
cmd_import(id, file) ==
  /\ StoreCommand("import")
  /\ UNCHANGED assigned
  /\ IF ~projectExists
     THEN Fail("NoProject")
     ELSE IF id \notin Ids(tracks)
     THEN Fail("TrackNotFound")
     ELSE IF file \notin Files
     THEN Fail("FileNotFound")
     ELSE Save(<<Write("tracks", update_track(tracks, id, "source", file))>>)

----------------------------------------------------------------------------
(* scripts/fx.py: add, remove, clear *)

\* The number of effects in all chains together.
EffectCount(fx) ==
  Cardinality({x \in (DOMAIN fx) \X (1..MaxEffects) : x[2] <= Len(fx[x[1]])})

\* The checks every effect command starts with: require_project, then
\* require_track (in fx.py or first thing in the state function).
FxCommand(name, id) ==
  /\ StoreCommand(name)
  /\ UNCHANGED assigned

FxRefused(id) ==
  IF ~projectExists THEN "NoProject"
  ELSE IF id \notin Ids(tracks) THEN "TrackNotFound"
  ELSE "no"

\* fx.py add -> state.add_effect
fx_cmd_add(id, e) ==
  /\ FxCommand("fx add", id)
  /\ IF FxRefused(id) /= "no"
     THEN Fail(FxRefused(id))
     ELSE /\ EffectCount(effects) < MaxEffects
          /\ Save(<<Write("effects", add_effect(effects, id, e))>>)

\* fx.py remove -> state.remove_effect
fx_cmd_remove(id, index) ==
  /\ pc = "idle"
  /\ inv' = [Invocation("fx remove") EXCEPT !.track_id = id, !.index = index]
  /\ last' = NoLast
  /\ UNCHANGED <<assigned, hostVars, pipeLocals, playLocals>>
  /\ IF FxRefused(id) /= "no"
     THEN Fail(FxRefused(id))
     ELSE IF ~IndexInRange(effects, id, index)
     THEN Fail("IndexOutOfRange")
     ELSE Save(<<Write("effects", remove_effect(effects, id, index))>>)

\* fx.py clear -> state.clear_effects
fx_cmd_clear(id) ==
  /\ FxCommand("fx clear", id)
  /\ IF FxRefused(id) /= "no"
     THEN Fail(FxRefused(id))
     ELSE Save(<<Write("effects", clear_effects(effects, id))>>)

----------------------------------------------------------------------------
(* scripts/play.py: the external commands *)

\* How an external command can end: exit status 0, a non-zero exit status
\* (CalledProcessError under check=True), or no such executable
\* (FileNotFoundError).
Outcomes == {"ok", "nonzero", "notfound"}

\* The (outcome, wrote) pairs a command with an output file can end in:
\* `wrote` says whether it had started writing its output file.
Endings ==
  {<<"ok", TRUE>>, <<"nonzero", TRUE>>, <<"nonzero", FALSE>>,
   <<"notfound", FALSE>>}

\* What a command leaves at its output path: the whole result when it
\* succeeds; when it fails, the part it had written, if any.
Written(old, res, wrote) ==
  IF res = "ok" THEN "complete"
  ELSE IF wrote THEN "partial"
  ELSE old

\* Variant: one temporary name for every track.
TmpPath_Shared(id) == "tmpdir/track.wav"

\* os.path.join(tmpdir, f"track_{t['id']}.wav")
TmpPath(id) == "tmpdir/track_" \o ToString(id) \o ".wav"

\* _render_track_to_file's command line.
RenderCmd(t, output, res) ==
  [kind |-> "render-track", ins |-> <<t.source>>, out |-> output,
   vol |-> t.volume, fx |-> build_sox_effects(effects, t.id), res |-> res]

\* ["sox", "-m"] + tmp_files + [output]
CombineCmd(files, output, res) ==
  [kind |-> "combine", ins |-> files, out |-> output,
   vol |-> 0, fx |-> <<>>, res |-> res]

\* ["play", file] and ["play", file, "repeat", "999"]
PlayCmd(file, repeat, res) ==
  [kind |-> IF repeat THEN "play-loop" ELSE "play", ins |-> <<file>>,
   out |-> None, vol |-> 0, fx |-> <<>>, res |-> res]

\* Variant: subprocess.run without check=True, a non-zero exit goes unnoticed.
RunUnchecked(res) == IF res = "nonzero" THEN "ok" ELSE res

\* What subprocess.run(cmd, check=True) tells its caller: check=True turns a
\* non-zero exit status into an exception.
RunChecked(res) == res

\* The exception subprocess.run(cmd, check=True) raises; cmd_mix and cmd_loop
\* do not catch it.
Raised(res) ==
  IF res = "nonzero" THEN "CalledProcessError" ELSE "FileNotFoundError"

\* Variant: one handler for both exceptions, with one message.
RunSoxExit_OneHandler(res) == "PlaybackError"

\* _run_sox's handlers: each prints its message and calls sys.exit(1).
RunSoxExit(res) ==
  IF res = "nonzero" THEN "PlaybackError" ELSE "SoxNotFound"

\* How a player run in the foreground can end: as any external command, or
\* interrupted by the user (KeyboardInterrupt).
ForegroundOutcomes == Outcomes \cup {"interrupted"}

\* How the invocation ends after _run_sox(cmd) in the foreground: the two
\* handlers of _run_sox; KeyboardInterrupt is not caught.
ForegroundExit(res) ==
  CASE res = "ok" -> "ok"
    [] res = "interrupted" -> "KeyboardInterrupt"
    [] OTHER -> RunSoxExit(res)

\* Variant: a foreground play that has ended clears the playback handle, as a
\* stop would.
PlayForeground_ClearsHandle(cmd, status) ==
  /\ cmds' = Append(cmds, cmd)
  /\ Finish(status, NoReport)
  /\ pidFile' = NoPid
  /\ UNCHANGED <<storeVars, procs, tmpFiles>>

\* A player is run in the foreground as the last thing of the invocation
\* (subprocess.run, which blocks until the player ends): the command is
\* issued and the invocation ends; no state file and no pid file is touched.
PlayForeground(cmd, status) ==
  /\ cmds' = Append(cmds, cmd)
  /\ Finish(status, NoReport)
  /\ UNCHANGED <<storeVars, hostVars>>

\* Variant: a temporary directory that is never removed (tempfile.mkdtemp).
Cleanup_Never(files) == files

\* Leaving `with tempfile.TemporaryDirectory()`, by falling off its end or by
\* an exception: what is left of the files of the directory.
Cleanup(files) == {}

----------------------------------------------------------------------------
(* scripts/play.py: mix and render *)

\* args.output or str(project_dir / "mix.wav")
OutputPath(i) == IF i.output /= None THEN i.output ELSE MixWav

\* Variant: every track goes through the temporary directory.
MixTarget_AlwaysTmp(act, t, output) == TmpPath(t.id)

\* Where cmd_mix renders a track: straight to the output when it is the only
\* active track, else to its file in the temporary directory.
MixTarget(act, t, output) ==
  IF Len(act) = 1 THEN output ELSE TmpPath(t.id)

\* Variant: the rendered mix is played whatever was asked.
MixRendered_AlwaysPlay == Continue("play")

\* Lines 109-112: after rendering, play unless --no-play.
MixRendered ==
  IF inv.no_play THEN Finish("ok", NoReport) ELSE Continue("play")

\* Variant: no check for an empty active list; the loop of lines 103-106 then
\* runs zero times and the combine command is issued.
MixEntry_NoCheck(act) == IF act = <<>> THEN "combine" ELSE "render"

\* Lines 87-89 and 95: where cmd_mix goes with the resolved active tracks.
MixEntry(act) == IF act = <<>> THEN "NoActiveTracks" ELSE "render"

\* Lines 84-93, up to the first external command.
MixStart(name, no_play, output) ==
  /\ pc = "idle"
  /\ inv' = [Invocation(name) EXCEPT !.no_play = no_play, !.output = output]
  /\ last' = NoLast
  /\ UNCHANGED <<storeVars, hostVars, tmp_files, cmds, outFile, playLocals>>
  /\ IF ~projectExists
     THEN /\ Finish("NoProject", NoReport)
          /\ UNCHANGED <<active, k>>
     ELSE LET act == get_active_tracks(tracks)
          IN  /\ active' = act
              /\ IF MixEntry(act) = "NoActiveTracks"
                 THEN Finish("NoActiveTracks", NoReport) /\ UNCHANGED k
                 ELSE Continue(MixEntry(act)) /\ k' = 1

cmd_mix(no_play, output) == MixStart("mix", no_play, output)

\* cmd_render: args.no_play = True; cmd_mix(args)
cmd_render(output) == MixStart("render", TRUE, output)

\* Line 98, or one iteration of the loop of lines 103-106.
mix_render_track ==
  /\ pc = "render"
  /\ inv.cmd \in {"mix", "render"}
  /\ \E e \in Endings :
       LET t == active[k]
           res == e[1]
           single == Len(active) = 1
           target == MixTarget(active, t, OutputPath(inv))
       IN  /\ cmds' = Append(cmds, RenderCmd(t, target, res))
           /\ outFile' = IF target = OutputPath(inv)
                         THEN Written(outFile, res, e[2])
                         ELSE outFile
           /\ IF RunChecked(res) = "ok"
              THEN /\ tmpFiles' = IF single THEN tmpFiles
                                  ELSE tmpFiles \cup {target}
                   /\ tmp_files' = IF single THEN tmp_files
                                   ELSE Append(tmp_files, target)
                   /\ IF single
                      THEN MixRendered /\ UNCHANGED k
                      ELSE IF k < Len(active)
                      THEN Continue("render") /\ k' = k + 1
                      ELSE Continue("combine") /\ UNCHANGED k
              ELSE /\ tmpFiles' =
                        IF single THEN tmpFiles
                        ELSE Cleanup(IF e[2] THEN tmpFiles \cup {target}
                                             ELSE tmpFiles)
                   /\ Finish(Raised(res), NoReport)
                   /\ UNCHANGED <<k, tmp_files>>
  /\ UNCHANGED <<storeVars, pidFile, procs, inv, active, playLocals, last>>

\* Line 107, then leaving the with block.
mix_combine ==
  /\ pc = "combine"
  /\ inv.cmd \in {"mix", "render"}
  /\ \E e \in Endings :
       /\ cmds' = Append(cmds, CombineCmd(tmp_files, OutputPath(inv), e[1]))
       /\ outFile' = Written(outFile, e[1], e[2])
       /\ tmpFiles' = Cleanup(tmpFiles)
       /\ IF RunChecked(e[1]) = "ok"
          THEN MixRendered
          ELSE Finish(Raised(e[1]), NoReport)
  /\ UNCHANGED <<storeVars, pidFile, procs, inv, active, k, tmp_files,
                 playLocals, last>>

\* Line 112: _run_sox(["play", output])
mix_play ==
  /\ pc = "play"
  /\ inv.cmd \in {"mix", "render"}
  /\ \E res \in ForegroundOutcomes :
       PlayForeground(PlayCmd(OutputPath(inv), FALSE, res),
                      ForegroundExit(RunChecked(res)))
  /\ UNCHANGED <<inv, active, k, tmp_files, outFile, playLocals, last>>

----------------------------------------------------------------------------
(* scripts/play.py: track, file; scripts/fx.py: preview *)

\* ["play", source] + ["vol", volume] unless the volume is 1.0 + the track's
\* effect chain (--start and --duration add a trim effect, not modelled).
TrackPlayCmd(t, res) ==
  [PlayCmd(t.source, FALSE, res) EXCEPT
     !.vol = IF t.volume /= NewTrack(t.id).volume THEN t.volume ELSE 0,
     !.fx = build_sox_effects(effects, t.id)]

\* A command that plays one stored track in the foreground: the checks it
\* makes before the player is started, then the player; status maps the
\* player's ending to the ending of the invocation.
PlayTrack(name, id, status) ==
  /\ pc = "idle"
  /\ inv' = Invocation(name)
  /\ last' = NoLast
  /\ UNCHANGED <<active, k, tmp_files, outFile, playLocals>>
  /\ LET track == get_track(tracks, id)
     IN  IF ~projectExists \/ track = NoTrack \/ ~HasSource(track)
         THEN /\ Finish(IF ~projectExists THEN "NoProject"
                        ELSE IF track = NoTrack THEN "TrackNotFound"
                        ELSE "NoSource", NoReport)
              /\ UNCHANGED <<storeVars, hostVars, cmds>>
         ELSE \E res \in ForegroundOutcomes :
                PlayForeground(TrackPlayCmd(track, res), status[res])

\* play.py track
cmd_track(id) ==
  PlayTrack("track", id,
            [res \in ForegroundOutcomes |-> ForegroundExit(RunChecked(res))])

\* fx.py preview calls subprocess.run(cmd, check=True) itself and catches only
\* FileNotFoundError.
PreviewExit(res) ==
  CASE res = "ok" -> "ok"
    [] res = "interrupted" -> "KeyboardInterrupt"
    [] res = "notfound" -> "SoxNotFound"
    [] OTHER -> Raised(res)

\* fx.py preview
cmd_preview(id) ==
  PlayTrack("preview", id,
            [res \in ForegroundOutcomes |-> PreviewExit(RunChecked(res))])

\* play.py file
cmd_file(path) ==
  /\ pc = "idle"
  /\ inv' = Invocation("file")
  /\ last' = NoLast
  /\ UNCHANGED <<active, k, tmp_files, outFile, playLocals>>
  /\ IF path \notin Files
     THEN /\ Finish("FileNotFound", NoReport)
          /\ UNCHANGED <<storeVars, hostVars, cmds>>
     ELSE \E res \in ForegroundOutcomes :
            PlayForeground(PlayCmd(path, FALSE, res),
                           ForegroundExit(RunChecked(res)))

----------------------------------------------------------------------------
(* cornwall/state.py: the playback handle; scripts/play.py: stop, status *)

\* How a signal sent with os.kill ends for a process table entry:
\* ProcessLookupError, the signal is delivered, or PermissionError.
SignalOutcomes(entry) ==
  CASE entry = "free" -> {"nosuch"}
    [] entry = "player" -> {"ok"}
    [] entry = "other" -> {"ok"}
    [] entry = "foreign" -> {"perm"}

\* Variant: the handle is not probed, a pid that parses counts as alive.
ProbeOutcomes_NoProbe(pf) ==
  IF pf = NoPid THEN {"nofile"}
  ELSE IF pf = Unparsable THEN {"unparsable"}
  ELSE {"ok"}

\* The outcomes of get_playback_pid's os.kill(pid, 0) for the handle pf.
ProbeOutcomes(pf) ==
  IF pf = NoPid THEN {"nofile"}
  ELSE IF pf = Unparsable THEN {"unparsable"}
  ELSE SignalOutcomes(procs[pf])

\* Variant: a handle that fails the probe is left in place.
get_playback_pid_NoPurge(pf, probe) ==
  IF probe = "ok" THEN [pid |-> pf, file |-> pf]
  ELSE [pid |-> NoPid, file |-> pf]

\* Variant: PermissionError is taken as a sign of life.
get_playback_pid_PermAlive(pf, probe) ==
  IF pf = NoPid THEN [pid |-> NoPid, file |-> NoPid]
  ELSE IF probe \in {"ok", "perm"} THEN [pid |-> pf, file |-> pf]
  ELSE [pid |-> NoPid, file |-> NoPid]

\* get_playback_pid: the pid it returns and what it leaves in the pid file.
\* No file: None.  int() fails (ValueError) or os.kill(pid, 0) fails
\* (ProcessLookupError, PermissionError): the file is unlinked, None.
get_playback_pid(pf, probe) ==
  IF pf = NoPid THEN [pid |-> NoPid, file |-> NoPid]
  ELSE IF probe = "ok" THEN [pid |-> pf, file |-> pf]
  ELSE [pid |-> NoPid, file |-> NoPid]

\* Variant: the pid file is written with an identifier that is not the
\* launched process's.
save_playback_pid_Stale(pf, p) == pf

\* save_playback_pid: the content of the pid file afterwards.
save_playback_pid(pf, p) == p

\* Variant: the pid file is left in place.
clear_playback_pid_Keep(pf) == pf

\* clear_playback_pid: the content of the pid file afterwards.
clear_playback_pid(pf) == NoPid

\* A signal as logged: the pid, what the process table held there, the signal
\* and how the call ended.
Signal(p, sig, res) == [pid |-> p, to |-> procs[p], sig |-> sig, res |-> res]

\* pkill -P <pid>: SIGTERM to the direct children of pid.
Pkill(p, res) == [pid |-> p, to |-> "children", sig |-> "pkill -P", res |-> res]

\* cmd_status
cmd_status ==
  /\ pc = "idle"
  /\ inv' = Invocation("status")
  /\ \E probe \in ProbeOutcomes(pidFile) :
       LET r == get_playback_pid(pidFile, probe)
       IN  /\ pidFile' = r.file
           /\ Finish("ok", IF r.pid /= NoPid
                           THEN [msg |-> "Playing", pid |-> r.pid]
                           ELSE [msg |-> "Not playing", pid |-> NoPid])
  /\ UNCHANGED <<storeVars, procs, tmpFiles, pipeLocals, playLocals, last>>

\* cmd_stop, line 173: the handle is read and probed.
stop_start ==
  /\ pc = "idle"
  /\ inv' = Invocation("stop")
  /\ \E probe \in ProbeOutcomes(pidFile) :
       LET r == get_playback_pid(pidFile, probe)
       IN  /\ pidFile' = r.file
           /\ pid' = r.pid
           /\ IF r.pid /= NoPid
              THEN Continue("stop_kill")
              ELSE Finish("ok", [msg |-> "Nothing playing", pid |-> NoPid])
  /\ UNCHANGED <<storeVars, procs, tmpFiles, pipeLocals, file_to_loop, proc,
                 signals, last>>

\* cmd_stop, lines 175-182.
stop_kill ==
  /\ pc = "stop_kill"
  /\ \E res \in SignalOutcomes(procs[pid]) :
       CASE res = "nosuch" ->
              /\ signals' = Append(signals, Signal(pid, "SIGTERM", res))
              /\ pidFile' = clear_playback_pid(pidFile)
              /\ Finish("ok", [msg |-> "No active playback", pid |-> NoPid])
         [] res = "perm" ->
              /\ signals' = Append(signals, Signal(pid, "SIGTERM", res))
              /\ UNCHANGED pidFile
              /\ Finish("PermissionError", NoReport)
         [] res = "ok" ->
              \E pk \in Outcomes :
                /\ signals' = signals \o <<Signal(pid, "SIGTERM", res),
                                           Pkill(pid, pk)>>
                /\ IF pk = "notfound"
                   THEN /\ UNCHANGED pidFile
                        /\ Finish("FileNotFoundError", NoReport)
                   ELSE /\ pidFile' = clear_playback_pid(pidFile)
                        /\ Finish("ok", [msg |-> "Stopped playback",
                                         pid |-> pid])
  /\ UNCHANGED <<storeVars, procs, tmpFiles, inv, pipeLocals, pid, file_to_loop,
                 proc, last>>

----------------------------------------------------------------------------
(* scripts/play.py: loop *)

\* The targets a loop request may name: the mix, a track id, or a word that
\* is neither.
LoopTargets == {"mix", "x"} \cup {ToString(i) : i \in 1..MaxId}

IsInt(str) == \E n \in 1..MaxId : ToString(n) = str
\* int(args.target)
ParseInt(str) == CHOOSE n \in 1..MaxId : ToString(n) = str

\* Lines 132-163 up to the first external command: what the loop is to play.
LoopResolve ==
  IF inv'.target = "mix"
  THEN LET act == get_active_tracks(tracks)
       IN  /\ active' = act
           /\ UNCHANGED file_to_loop
           /\ IF act = <<>>
              THEN Finish("NoActiveTracks", NoReport) /\ UNCHANGED k
              ELSE Continue("loop_render") /\ k' = 1
  ELSE /\ UNCHANGED <<active, k>>
       /\ IF ~IsInt(inv'.target)
          THEN Finish("ValueError", NoReport) /\ UNCHANGED file_to_loop
          ELSE LET track == get_track(tracks, ParseInt(inv'.target))
               IN  IF track = NoTrack
                   THEN Finish("TrackNotFound", NoReport)
                        /\ UNCHANGED file_to_loop
                   ELSE IF ~HasSource(track)
                   THEN Finish("NoSource", NoReport) /\ UNCHANGED file_to_loop
                   ELSE Continue("launch") /\ file_to_loop' = track.source

\* cmd_loop, lines 121-125: the handle is read and probed.
loop_start(target) ==
  /\ pc = "idle"
  /\ inv' = [Invocation("loop") EXCEPT !.target = target]
  /\ last' = NoLast
  /\ UNCHANGED <<storeVars, procs, tmpFiles, tmp_files, cmds, outFile, proc,
                 signals>>
  /\ IF ~projectExists
     THEN /\ Finish("NoProject", NoReport)
          /\ UNCHANGED <<pidFile, pid, active, k, file_to_loop>>
     ELSE \E probe \in ProbeOutcomes(pidFile) :
            LET r == get_playback_pid(pidFile, probe)
            IN  /\ pidFile' = r.file
                /\ pid' = r.pid
                /\ IF r.pid /= NoPid
                   THEN /\ Continue("loop_kill")
                        /\ UNCHANGED <<active, k, file_to_loop>>
                   ELSE LoopResolve

\* cmd_loop, lines 126-130, and on to the first external command.
loop_kill ==
  /\ pc = "loop_kill"
  /\ inv' = inv
  /\ \E res \in SignalOutcomes(procs[pid]) :
       /\ signals' = Append(signals, Signal(pid, "SIGTERM", res))
       /\ IF res = "perm"
          THEN /\ Finish("PermissionError", NoReport)
               /\ UNCHANGED <<pidFile, active, k, file_to_loop>>
          ELSE /\ pidFile' = clear_playback_pid(pidFile)
               /\ LoopResolve
  /\ UNCHANGED <<storeVars, procs, tmpFiles, tmp_files, cmds, outFile, pid,
                 proc, last>>

\* Variant: the loop renders to a file of its own.
LoopOutput_Own == "loop.wav"

\* Line 134: the loop always renders to the project's mix.wav.
LoopOutput == MixWav

\* Where cmd_loop renders a track (lines 142-152).
LoopTarget(act, t, output) ==
  IF Len(act) = 1 THEN output ELSE TmpPath(t.id)

\* Line 145, or one iteration of the loop of lines 150-153.
loop_render_track ==
  /\ pc = "loop_render"
  /\ \E e \in Endings :
       LET t == active[k]
           res == e[1]
           single == Len(active) = 1
           target == LoopTarget(active, t, LoopOutput)
       IN  /\ cmds' = Append(cmds, RenderCmd(t, target, res))
           /\ outFile' = IF target = LoopOutput
                         THEN Written(outFile, res, e[2])
                         ELSE outFile
           /\ IF RunChecked(res) = "ok"
              THEN /\ tmpFiles' = IF single THEN tmpFiles
                                  ELSE tmpFiles \cup {target}
                   /\ tmp_files' = IF single THEN tmp_files
                                   ELSE Append(tmp_files, target)
                   /\ IF single
                      THEN /\ Continue("launch")
                           /\ file_to_loop' = LoopOutput
                           /\ UNCHANGED k
                      ELSE IF k < Len(active)
                      THEN /\ Continue("loop_render")
                           /\ k' = k + 1
                           /\ UNCHANGED file_to_loop
                      ELSE /\ Continue("loop_combine")
                           /\ UNCHANGED <<k, file_to_loop>>
              ELSE /\ tmpFiles' =
                        IF single THEN tmpFiles
                        ELSE Cleanup(IF e[2] THEN tmpFiles \cup {target}
                                             ELSE tmpFiles)
                   /\ Finish(Raised(res), NoReport)
                   /\ UNCHANGED <<k, tmp_files, file_to_loop>>
  /\ UNCHANGED <<storeVars, pidFile, procs, inv, active, pid, proc, signals,
                 last>>

\* Line 154, then leaving the with block; line 156.
loop_combine ==
  /\ pc = "loop_combine"
  /\ \E e \in Endings :
       /\ cmds' = Append(cmds, CombineCmd(tmp_files, LoopOutput, e[1]))
       /\ outFile' = Written(outFile, e[1], e[2])
       /\ tmpFiles' = Cleanup(tmpFiles)
       /\ IF RunChecked(e[1]) = "ok"
          THEN Continue("launch") /\ file_to_loop' = LoopOutput
          ELSE Finish(Raised(e[1]), NoReport) /\ UNCHANGED file_to_loop
  /\ UNCHANGED <<storeVars, pidFile, procs, inv, active, k, tmp_files, pid,
                 proc, signals, last>>

FreePids == {p \in Pids : procs[p] = "free"}

\* Line 165: the player is started detached.
loop_launch ==
  /\ pc = "launch"
  /\ \/ /\ cmds' = Append(cmds, PlayCmd(file_to_loop, TRUE, "notfound"))
        /\ Finish(RunSoxExit("notfound"), NoReport)
        /\ UNCHANGED <<procs, proc>>
     \/ \E p \in FreePids :
          /\ cmds' = Append(cmds, PlayCmd(file_to_loop, TRUE, "ok"))
          /\ procs' = [procs EXCEPT ![p] = "player"]
          /\ proc' = p
          /\ Continue("save_open")
  /\ UNCHANGED <<storeVars, pidFile, tmpFiles, inv, active, k, tmp_files,
                 outFile, pid, file_to_loop, signals, last>>

\* Line 167, save_playback_pid: write_text opens the pid file for writing,
\* which creates it empty or truncates it.
loop_save_open ==
  /\ pc = "save_open"
  /\ pidFile' = Unparsable
  /\ Continue("save_write")
  /\ UNCHANGED <<storeVars, procs, tmpFiles, inv, pipeLocals, playLocals, last>>

\* Line 167, save_playback_pid: the pid is written; lines 168-169.
loop_save_write ==
  /\ pc = "save_write"
  /\ pidFile' = save_playback_pid(pidFile, proc)
  /\ Finish("ok", [msg |-> "Looping", pid |-> proc])
  /\ UNCHANGED <<storeVars, procs, tmpFiles, inv, pipeLocals, playLocals, last>>

----------------------------------------------------------------------------
(* The host *)

\* The steps that read the process table.  No other step reads or writes it,
\* so a change of the table during another step is the same change made just
\* before the next of these.
ReadsProcs == pc \in {"idle", "stop_kill", "loop_kill", "launch"}

\* A process ends: the player by itself or by a signal, or an unrelated one.
ProcExit(p) ==
  /\ ReadsProcs
  /\ procs[p] /= "free"
  /\ procs' = [procs EXCEPT ![p] = "free"]
  /\ UNCHANGED <<storeVars, pidFile, tmpFiles, pc, inv, pipeLocals, playLocals,
                 exit, report, last>>

\* The host starts an unrelated process, for the user or for another user,
\* under a free pid.  Only a pid that the pid file or a running stop names is
\* ever signalled, so unrelated processes under other pids are left out.
OtherStart(p, owner) ==
  /\ ReadsProcs
  /\ p \in {pidFile, pid}
  /\ procs[p] = "free"
  /\ procs' = [procs EXCEPT ![p] = owner]
  /\ UNCHANGED <<storeVars, pidFile, tmpFiles, pc, inv, pipeLocals, playLocals,
                 exit, report, last>>

----------------------------------------------------------------------------
\* No invocation runs and none has left anything behind.
Rest ==
  /\ pc = "idle"
  /\ inv = NoInv
  /\ writes = <<>>
  /\ active = <<>>
  /\ k = 0
  /\ tmp_files = <<>>
  /\ pid = NoPid
  /\ file_to_loop = None
  /\ proc = NoPid
  /\ cmds = <<>>
  /\ signals = <<>>
  /\ outFile = "untouched"
  /\ exit = "none"
  /\ report = NoReport
  /\ last = NoLast

\* No project has been created.
EmptyStore ==
  /\ projectExists = FALSE
  /\ tracks = <<>>
  /\ effects = EmptyDict
  /\ torn = {}
  /\ assigned = 0

\* No pid file, no temporary file, and no process that matters to the tool.
QuietHost ==
  /\ pidFile = NoPid
  /\ procs = [p \in Pids |-> "free"]
  /\ tmpFiles = {}

Init == EmptyStore /\ QuietHost /\ Rest

TrackIds == 1..MaxId

\* The project store and the mix / render pipeline.
Next ==
  \/ create_project
  \/ cmd_add
  \/ \E id \in TrackIds : cmd_remove(id)
  \/ \E id \in TrackIds : cmd_solo(id)
  \/ \E id \in TrackIds : cmd_unsolo(id)
  \/ \E id \in TrackIds : cmd_mute(id)
  \/ \E id \in TrackIds : cmd_unmute(id)
  \/ \E id \in TrackIds, f \in ImportPaths : cmd_import(id, f)
  \/ \E np \in BOOLEAN, o \in OutputArgs : cmd_mix(np, o)
  \/ \E o \in OutputArgs : cmd_render(o)
  \/ mix_render_track
  \/ mix_combine
  \/ mix_play
  \/ write_open
  \/ write_dump
  \/ Return

Spec == Init /\ [][Next]_vars

\* A stored track as add leaves it and then import.
Imported(id) == [NewTrack(id) EXCEPT !.source = "a.wav"]

\* The track lists the playback commands are run on: none, one track without
\* a source, a track with a source and one without, three tracks with sources.
PlayTracks ==
  {<<>>, <<NewTrack(1)>>, <<Imported(1), NewTrack(2)>>,
   <<Imported(1), Imported(2), Imported(3)>>}

\* The effect chains of these projects: a reverb on track 2, if there is one,
\* and empty chains elsewhere.
PlayEffects(ts) ==
  [id \in Ids(ts) |->
     IF id = 2 THEN <<[name |-> "reverb", params |-> <<>>]>> ELSE <<>>]

\* A project as create, add, import and fx add have left it, or no project.
InitPlay ==
  /\ tracks \in PlayTracks
  /\ projectExists \in (IF tracks = <<>> THEN BOOLEAN ELSE {TRUE})
  /\ effects = PlayEffects(tracks)
  /\ torn = {}
  /\ assigned = Len(tracks)
  /\ QuietHost
  /\ Rest

\* Playback: the tracks of a project are rendered, played, looped, stopped and
\* queried, on a host whose processes come and go.
NextPlay ==
  \/ \E np \in BOOLEAN : cmd_mix(np, None)
  \/ mix_render_track
  \/ mix_combine
  \/ mix_play
  \/ \E id \in TrackIds : cmd_track(id)
  \/ \E id \in TrackIds : cmd_preview(id)
  \/ \E path \in ImportPaths : cmd_file(path)
  \/ \E target \in LoopTargets : loop_start(target)
  \/ loop_kill
  \/ loop_render_track
  \/ loop_combine
  \/ loop_launch
  \/ loop_save_open
  \/ loop_save_write
  \/ stop_start
  \/ stop_kill
  \/ cmd_status
  \/ \E p \in Pids : ProcExit(p)
  \/ \E p \in Pids, owner \in {"other", "foreign"} : OtherStart(p, owner)
  \/ Return

SpecPlay == InitPlay /\ [][NextPlay]_vars

\* The state store: tracks come and go and their effect chains are edited.
NextStore ==
  \/ create_project
  \/ cmd_add
  \/ \E id \in TrackIds : cmd_remove(id)
  \/ \E id \in TrackIds, e \in EffectChoices : fx_cmd_add(id, e)
  \/ \E id \in TrackIds, index \in -1..MaxEffects : fx_cmd_remove(id, index)
  \/ \E id \in TrackIds : fx_cmd_clear(id)
  \/ write_open
  \/ write_dump
  \/ Return

SpecStore == Init /\ [][NextStore]_vars

\* The playback handle on any host: the pid file as an earlier session or an
\* interrupted save_playback_pid may have left it (absent, empty, or naming a
\* pid), and the process table in any state.
InitPid ==
  /\ projectExists \in BOOLEAN
  /\ tracks = <<>>
  /\ effects = EmptyDict
  /\ torn = {}
  /\ assigned = 0
  /\ pidFile \in {NoPid, Unparsable} \cup Pids
  /\ procs \in [Pids -> {"free", "player", "other", "foreign"}]
  /\ tmpFiles = {}
  /\ Rest

NextPid ==
  \/ cmd_status
  \/ stop_start
  \/ stop_kill
  \/ \E target \in LoopTargets : loop_start(target)
  \/ loop_kill
  \/ \E p \in Pids : ProcExit(p)
  \/ \E p \in Pids, owner \in {"other", "foreign"} : OtherStart(p, owner)
  \/ Return

SpecPid == InitPid /\ [][NextPid]_vars

\* Values as parse_params leaves them: a number, and a string that is not the
\* text of a number.
FxNumber == [num |-> TRUE, v |-> 3]
FxString == [num |-> FALSE, v |-> "sine"]

\* The parameter maps of the stored effects: none, one parameter, and two
\* parameters in either insertion order.
FxParams ==
  {<<>>,
   <<<<"gain", FxNumber>>>>,
   <<<<"gain", FxNumber>>, <<"speed", FxString>>>>,
   <<<<"speed", FxString>>, <<"gain", FxNumber>>>>}

\* The names of the stored effects: catalog effects with optional and with
\* defaulted parameters, the two without parameters, and a raw effect.
FxNames == {"tremolo", "overdrive", "flanger", "phaser", "gain"}

FxEffects == [name : FxNames, params : FxParams]

\* The chains a track may have: up to MaxEffects effects, repeats allowed.
FxChains == UNION {[1..n -> FxEffects] : n \in 0..MaxEffects}

\* A project with one imported track whose chain is any of FxChains, or is
\* missing from effects.json.
InitFx ==
  /\ projectExists = TRUE
  /\ tracks = <<Imported(1)>>
  /\ effects \in {[id \in {1} |-> c] : c \in FxChains} \cup {EmptyDict}
  /\ torn = {}
  /\ assigned = 1
  /\ QuietHost
  /\ Rest

\* Effect compilation: the commands that compile a track's chain into the
\* command line of a player or of a render.
NextFx ==
  \/ \E id \in TrackIds : cmd_track(id)
  \/ \E id \in TrackIds : cmd_preview(id)
  \/ cmd_render(None)
  \/ mix_render_track
  \/ Return

SpecFx == InitFx /\ [][NextFx]_vars

\* Bound of the model: the longest chain an effect is removed from.
MaxChain == 3

\* The chains fx add can have built: up to MaxChain effects, repeats allowed.
StoredChains == UNION {[1..n -> EffectChoices] : n \in 0..MaxChain}

\* A project of two tracks: the first with any chain of StoredChains, the
\* second with a chain of one effect or, as an add that was cut short between
\* its two writes leaves it, without an entry in effects.json.
InitChain ==
  /\ projectExists = TRUE
  /\ tracks = <<NewTrack(1), NewTrack(2)>>
  /\ \E c \in StoredChains :
       \/ effects = [id \in {1} |-> c]
       \/ effects = [id \in {1, 2} |->
                       IF id = 1 THEN c
                       ELSE <<[name |-> "reverb", params |-> <<>>]>>]
  /\ torn = {}
  /\ assigned = 2
  /\ QuietHost
  /\ Rest

\* Removing effects: any track id and any index, in and out of range.
NextChain ==
  \/ \E id \in TrackIds, index \in -1..MaxChain : fx_cmd_remove(id, index)
  \/ write_open
  \/ write_dump
  \/ Return

SpecChain == InitChain /\ [][NextChain]_vars

----------------------------------------------------------------------------
(* Properties *)

Range(q) == {q[i] : i \in 1..Len(q)}

\* Positions of the stored tracks that are soloed and have a source.
SoloSourced == {i \in 1..Len(tracks) : tracks[i].solo /\ tracks[i].source /= None}
\* Positions of the stored tracks that are not muted and have a source.
UnmutedSourced ==
  {i \in 1..Len(tracks) : ~tracks[i].mute /\ tracks[i].source /= None}

InMix == pc /= "idle" /\ inv.cmd \in {"mix", "render"}

\* The positions in cmds of the commands of one kind.
CmdsOf(kind) == {i \in 1..Len(cmds) : cmds[i].kind = kind}

\* C1: whenever some stored track is soloed and has a source, the active
\* tracks are exactly the soloed tracks with a source, whatever the mute flags;
\* a running mix works on exactly that list.
C1_SoloPrecedence ==
  LET act == get_active_tracks(tracks)
  IN  SoloSourced /= {} =>
        /\ Range(act) = {tracks[i] : i \in SoloSourced}
        /\ Len(act) = Cardinality(SoloSourced)
        /\ (InMix => active = act)

\* A mix runs on a project with a track that is soloed, muted and has a source
\* and another that is neither soloed nor muted and has a source.
C1_Witness ==
  /\ InMix
  /\ pc = "render"
  /\ \E i, j \in 1..Len(tracks) :
       /\ tracks[i].solo /\ tracks[i].mute /\ tracks[i].source /= None
       /\ ~tracks[j].solo /\ ~tracks[j].mute /\ tracks[j].source /= None
       /\ tracks[i] \in Range(active)
       /\ tracks[j] \notin Range(active)

\* C2: whenever no stored track is both soloed and has a source, the active
\* tracks are exactly the tracks that are not muted and have a source.
C2_MuteBranch ==
  LET act == get_active_tracks(tracks)
  IN  SoloSourced = {} =>
        /\ Range(act) = {tracks[i] : i \in UnmutedSourced}
        /\ Len(act) = Cardinality(UnmutedSourced)
        /\ (InMix /\ projectExists => active = act)

\* A mix runs on a project whose only soloed track has no source, with a muted
\* track that has a source and an unmuted one that has a source.
C2_Witness ==
  /\ InMix
  /\ pc = "render"
  /\ \E i, j, m \in 1..Len(tracks) :
       /\ tracks[i].solo /\ tracks[i].source = None
       /\ tracks[j].mute /\ tracks[j].source /= None
       /\ ~tracks[m].mute /\ tracks[m].source /= None
       /\ active = <<tracks[m]>>

\* C3: no track without a source is ever active, and no render-track command
\* is ever issued with an absent input file.
C3_NoSourcelessActive ==
  /\ \A t \in Range(get_active_tracks(tracks)) : t.source /= None
  /\ \A t \in Range(active) : t.source /= None
  /\ \A i \in CmdsOf("render-track") : cmds[i].ins /= <<None>>

\* A render-track command has been issued in a project that holds a track
\* without a source that is soloed, and one that is not muted.
C3_Witness ==
  /\ CmdsOf("render-track") /= {}
  /\ \E i, j \in 1..Len(tracks) :
       /\ tracks[i].source = None /\ tracks[i].solo
       /\ tracks[j].source = None /\ ~tracks[j].mute

\* C4: a mix or render request of a project with no active track ends with the
\* no-active-tracks error, has issued no external command and has not touched
\* the final output path.
C4_NoActiveTracks ==
  (InMix /\ projectExists /\ get_active_tracks(tracks) = <<>>) =>
    /\ pc = "done"
    /\ exit = "NoActiveTracks"
    /\ cmds = <<>>
    /\ outFile = "untouched"
    /\ tmpFiles = {}

\* A mix request has ended on a project whose tracks are all inaudible.
C4_Witness ==
  /\ InMix
  /\ pc = "done"
  /\ exit = "NoActiveTracks"
  /\ \E i, j \in 1..Len(tracks) :
       /\ tracks[i].source /= None /\ tracks[i].mute
       /\ tracks[j].source = None

\* C5: with exactly one active track a render issues exactly one render-track
\* command, from the track's source to the final output path, no combine
\* command, and creates no intermediate file.
C5_SingleTrack ==
  (InMix /\ Len(active) = 1) =>
    /\ CmdsOf("combine") = {}
    /\ tmpFiles = {}
    /\ tmp_files = <<>>
    /\ pc = "render" => cmds = <<>>
    /\ pc \in {"play", "done"} =>
         /\ CmdsOf("render-track") = {1}
         /\ cmds[1].ins = <<active[1].source>>
         /\ cmds[1].out = OutputPath(inv)

\* A render of one active track among several stored tracks has succeeded.
C5_Witness ==
  /\ InMix
  /\ pc = "done"
  /\ exit = "ok"
  /\ Len(active) = 1
  /\ Len(tracks) > 1
  /\ outFile = "complete"

\* No render-track or combine command of the invocation has failed.
NoRenderFailure ==
  \A i \in CmdsOf("render-track") \cup CmdsOf("combine") : cmds[i].res = "ok"

\* C6: with N > 1 active tracks and no failing command, a render that is past
\* its combine step has issued N render-track commands, one per active track
\* in the order of the active list, each to a temporary file of its own, and
\* then one combine command from exactly those files to the final output.
C6_MultiTrack ==
  LET n == Len(active)
  IN  (InMix /\ n > 1 /\ NoRenderFailure) =>
        /\ pc = "render" => Len(cmds) = k - 1
        /\ pc = "combine" => Len(cmds) = n
        /\ pc \in {"render", "combine"} => CmdsOf("render-track") = 1..Len(cmds)
        /\ \A i \in CmdsOf("render-track") :
             /\ i <= n
             /\ cmds[i].ins = <<active[i].source>>
             /\ cmds[i].out /= OutputPath(inv)
             /\ \A j \in CmdsOf("render-track") :
                  i /= j => cmds[i].out /= cmds[j].out
        /\ pc \in {"play", "done"} =>
             /\ CmdsOf("render-track") = 1..n
             /\ CmdsOf("combine") = {n + 1}
             /\ cmds[n + 1].ins = [i \in 1..n |-> cmds[i].out]
             /\ cmds[n + 1].out = OutputPath(inv)

\* A render of three active tracks has succeeded.
C6_Witness ==
  /\ InMix
  /\ pc = "done"
  /\ exit = "ok"
  /\ Len(active) = 3
  /\ Len(cmds) = 4

\* C8: a failed external command is the last command of its invocation: no
\* later render-track, combine or play command follows it, and the invocation
\* has ended with an error.
C8_FailureIsTerminal ==
  \A i \in 1..Len(cmds) :
    cmds[i].res /= "ok" =>
      /\ i = Len(cmds)
      /\ pc = "done"
      /\ exit \notin {"ok", "none"}

\* The second render-track command of a mix of several tracks has exited
\* non-zero.
C8_Witness ==
  /\ InMix
  /\ Len(active) > 2
  /\ Len(cmds) = 2
  /\ cmds[2].kind = "render-track"
  /\ cmds[2].res = "nonzero"
  /\ pc = "done"

\* C9 as claimed: a failed render leaves no partial file at the final output
\* path.
C9_NoPartialOutput ==
  (pc = "done" /\ exit \in {"CalledProcessError", "FileNotFoundError"}) =>
    outFile /= "partial"

\* C7: once a render has returned or aborted, no file of its temporary
\* directory exists, whichever command failed or was missing.
C7_TempFilesRemoved == pc \in {"done", "idle"} => tmpFiles = {}

\* A loop of the mix of several tracks has ended with a failed combine command,
\* after every track was rendered to its temporary file.
C7_Witness ==
  /\ pc = "done"
  /\ inv.cmd = "loop"
  /\ Len(active) > 1
  /\ Len(tmp_files) = Len(active)
  /\ Len(cmds) = Len(active) + 1
  /\ cmds[Len(cmds)].kind = "combine"
  /\ cmds[Len(cmds)].res = "nonzero"
  /\ exit = "CalledProcessError"

LastOk(cmd) == last.cmd = cmd /\ last.exit = "ok"

HandleAlive == pidFile \in Pids /\ procs[pidFile] \in {"player", "other"}

C12_StopClearsHandle ==
  ( /\ pc = "done"
    /\ inv.cmd = "stop"
    /\ signals /= <<>>
    /\ signals[1].sig = "SIGTERM"
    /\ signals[1].res = "ok" ) =>
    /\ exit = "ok"
    /\ pidFile = NoPid
    /\ Len(signals) = 2
    /\ signals[2].sig = "pkill -P"
    /\ signals[2].pid = signals[1].pid
    /\ signals[2].res /= "notfound"

\* C13: a stop request that finds the handle of a pid without a process ends
\* at once without error, reports that nothing is playing, sends no signal and
\* leaves no handle; when the process goes away between the probe and the
\* signal, the request ends without error, reports no active playback, its one
\* signal has reached no process, no children are signalled, and no handle is
\* left.
C13_StopDeadHandle ==
  [][ /\ ( /\ pc = "idle"
           /\ inv'.cmd = "stop"
           /\ pidFile \in Pids
           /\ procs[pidFile] = "free" ) =>
           /\ pc' = "done"
           /\ exit' = "ok"
           /\ report' = [msg |-> "Nothing playing", pid |-> NoPid]
           /\ signals' = <<>>
           /\ pidFile' = NoPid
      /\ ( /\ pc = "stop_kill"
           /\ pc' /= pc
           /\ procs[pid] = "free" ) =>
           /\ pc' = "done"
           /\ exit' = "ok"
           /\ report' = [msg |-> "No active playback", pid |-> NoPid]
           /\ signals' = <<[pid |-> pid, to |-> "free", sig |-> "SIGTERM",
                            res |-> "nosuch"]>>
           /\ pidFile' = NoPid
    ]_vars

\* A stop request has ended whose process exited between the probe and the
\* signal.
C13_Witness ==
  /\ pc = "done"
  /\ inv.cmd = "stop"
  /\ exit = "ok"
  /\ report.msg = "No active playback"
  /\ pid /= NoPid
  /\ procs[pid] = "free"
  /\ pidFile = NoPid

\* C14: a status request reports Playing only for a persisted pid whose
\* process exists, with that pid, and then leaves the handle as it is; it
\* reports Playing whenever the handle names a live player; in every other
\* case it reports Not playing and leaves no handle, and it does so whenever
\* there is no handle or no process under the handle's pid.
C14_Status ==
  [][ ( /\ pc = "idle"
        /\ inv'.cmd = "status" ) =>
        /\ pc' = "done"
        /\ exit' = "ok"
        /\ report'.msg \in {"Playing", "Not playing"}
        /\ report'.msg = "Playing" =>
             /\ pidFile \in Pids
             /\ procs[pidFile] /= "free"
             /\ report'.pid = pidFile
             /\ pidFile' = pidFile
        /\ report'.msg = "Not playing" =>
             /\ report'.pid = NoPid
             /\ pidFile' = NoPid
        /\ (pidFile \in Pids /\ procs[pidFile] = "player") =>
             report'.msg = "Playing"
        /\ (pidFile \notin Pids \/ procs[pidFile] = "free") =>
             report'.msg = "Not playing"
    ]_vars

\* A status request that follows a successful loop whose player has exited
\* has reported Not playing and removed the handle.
C14_Witness ==
  /\ pc = "done"
  /\ inv.cmd = "status"
  /\ report.msg = "Not playing"
  /\ LastOk("loop")
  /\ procs[last.report.pid] = "free"
  /\ pidFile = NoPid

ForegroundCmds == {"track", "file", "preview"}

\* C16: no step of a play-track, play-file or preview invocation, and no
\* play-after-mix step, changes the pid file, however the player ends; a pid
\* is put into the pid file only by the save step of a loop invocation, and
\* the pid file is created or truncated only by a loop invocation.
C16_ForegroundLeavesHandle ==
  [][ /\ ( \/ inv.cmd \in ForegroundCmds
           \/ inv'.cmd \in ForegroundCmds
           \/ pc = "play" ) =>
           pidFile' = pidFile
      /\ ( pidFile' /= pidFile /\ pidFile' \in Pids ) =>
           /\ inv.cmd = "loop"
           /\ pc = "save_write"
      /\ ( pidFile' /= pidFile /\ pidFile' = Unparsable ) =>
           /\ inv.cmd = "loop"
           /\ pc = "save_open"
    ]_vars

\* A track has been played in the foreground and the player interrupted while
\* the handle of a looping player was persisted.
C16_Witness ==
  /\ pc = "done"
  /\ inv.cmd = "track"
  /\ exit = "KeyboardInterrupt"
  /\ pidFile \in Pids
  /\ procs[pidFile] = "player"

\* No invocation is in the middle of its work.
AtRest == pc \in {"idle", "done"}

\* C17: whenever no invocation is in the middle of its work, whether the last
\* one succeeded or was refused, the track ids that have an entry in the
\* effects file are exactly the ids of the stored tracks.
C17_ChainPerTrack == AtRest => DOMAIN effects = Ids(tracks)

\* The track with the highest id has been removed from a project in which
\* another track has a chain of two effects.
C17_Witness ==
  /\ pc = "done"
  /\ inv.cmd = "remove"
  /\ exit = "ok"
  /\ assigned \notin Ids(tracks)
  /\ \E id \in Ids(tracks) : Len(effects[id]) = 2

\* C18: every track that is added gets an id greater than every id handed out
\* in the project before.
C18_MonotonicIds ==
  [][ ( /\ pc = "idle"
        /\ inv'.cmd = "add"
        /\ pc' = "write" ) =>
        next_track_id(tracks) > assigned
    ]_vars

\* C19: while a track is being removed, and afterwards, the stored tracks and
\* the effect chains are for the same ids: the track and its chain are both
\* there or both gone.
C19_AtomicDelete == inv.cmd = "remove" => DOMAIN effects = Ids(tracks)

\* C20: no state file is ever in the state between its truncation and the
\* arrival of its new content.
C20_AtomicWrites == torn = {} /\ pidFile /= Unparsable

\* The number of tokens the first n effects of a chain contribute.
RECURSIVE Offset(_, _)
Offset(chain, n) ==
  IF n = 0 THEN 0 ELSE Offset(chain, n - 1) + Len(effect_args(chain[n]))

\* toks is made of the token groups of the chain's effects, one group per
\* effect, in chain order and with nothing in between.
IsConcatenation(toks, chain) ==
  /\ Len(toks) = Offset(chain, Len(chain))
  /\ \A i \in 1..Len(chain) :
       SubSeq(toks, Offset(chain, i - 1) + 1, Offset(chain, i))
         = effect_args(chain[i])

\* C21: the tokens compiled for a track are the token groups of the effects
\* of its chain, one group per effect, repeated names included, in chain
\* order; compiling a chain cut in two anywhere and joining the results gives
\* the same tokens; an empty or missing chain compiles to no token; and every
\* render or play command of the track carries exactly these tokens.
C21_ChainConcatenation ==
  \A id \in TrackIds :
    LET chain == get_track_effects(effects, id)
        toks == build_sox_effects(effects, id)
    IN  /\ IsConcatenation(toks, chain)
        /\ \A n \in 0..Len(chain) :
             toks = compile_chain(SubSeq(chain, 1, n))
                      \o compile_chain(SubSeq(chain, n + 1, Len(chain)))
        /\ (id \notin DOMAIN effects \/ chain = <<>>) => toks = <<>>
        /\ (id \in Ids(tracks) /\ inv.cmd \in {"track", "preview", "render"}) =>
             \A i \in 1..Len(cmds) : IsConcatenation(cmds[i].fx, chain)

\* A render-track command has been issued for a track whose chain holds the
\* same catalog effect twice, with different parameters, and each has
\* contributed a group of its own.
C21_Witness ==
  /\ CmdsOf("render-track") = {1}
  /\ 1 \in DOMAIN effects
  /\ Len(effects[1]) = 2
  /\ effects[1][1].name = "tremolo"
  /\ effects[1][2].name = "tremolo"
  /\ cmds[1].fx = <<"tremolo", "6", "tremolo", "sine">>

\* C22: a flanger or phaser effect compiles to the single token of its name,
\* whatever its parameter map holds.
C22_NoParameterEffects ==
  \A id \in DOMAIN effects :
    LET chain == effects[id]
    IN  /\ \A i \in 1..Len(chain) :
             chain[i].name \in {"flanger", "phaser"} =>
               effect_args(chain[i]) = <<chain[i].name>>
        /\ (\A i \in 1..Len(chain) : chain[i].name \in {"flanger", "phaser"}) =>
             /\ build_sox_effects(effects, id)
                  = [i \in 1..Len(chain) |-> chain[i].name]
             /\ \A i \in 1..Len(cmds) :
                  cmds[i].fx = [j \in 1..Len(chain) |-> chain[j].name]

\* A track has been played whose chain is a flanger with two parameters and
\* then a phaser with one.
C22_Witness ==
  /\ inv.cmd = "track"
  /\ Len(cmds) = 1
  /\ 1 \in DOMAIN effects
  /\ Len(effects[1]) = 2
  /\ effects[1][1].name = "flanger" /\ Len(effects[1][1].params) = 2
  /\ effects[1][2].name = "phaser" /\ Len(effects[1][2].params) = 1
  /\ cmds[1].fx = <<"flanger", "phaser">>

\* C23: an effect whose name is not one of the catalog compiles to its name
\* followed by the str() of each parameter value, in insertion order and
\* without the keys: one token more than it has parameters.
C23_RawPassThrough ==
  \A id \in DOMAIN effects :
    LET chain == effects[id]
    IN  /\ \A i \in 1..Len(chain) :
             chain[i].name \notin Catalog =>
               LET toks == effect_args(chain[i])
                   p == chain[i].params
               IN  /\ Len(toks) = 1 + Len(p)
                   /\ toks[1] = chain[i].name
                   /\ \A j \in 1..Len(p) : toks[j + 1] = Str(p[j][2])
        /\ (Len(chain) = 1 /\ chain[1].name \notin Catalog) =>
             \A i \in 1..Len(cmds) :
               /\ Len(cmds[i].fx) = 1 + Len(chain[1].params)
               /\ cmds[i].fx[1] = chain[1].name
               /\ \A j \in 1..Len(chain[1].params) :
                    cmds[i].fx[j + 1] = Str(chain[1].params[j][2])

\* A preview has been played of a track whose chain is one raw effect with a
\* string parameter inserted before a number parameter.
C23_Witness ==
  /\ inv.cmd = "preview"
  /\ Len(cmds) = 1
  /\ 1 \in DOMAIN effects
  /\ Len(effects[1]) = 1
  /\ effects[1][1].name = "gain"
  /\ effects[1][1].params = <<<<"speed", FxString>>, <<"gain", FxNumber>>>>
  /\ cmds[1].fx = <<"gain", "sine", "3">>

\* How an invocation ends whose external command could not be started, and
\* how it ends when the command ran and exited non-zero.
NotFoundExits == {"FileNotFoundError", "SoxNotFound"}
FailedExits == {"CalledProcessError", "PlaybackError"}

\* C24: an invocation that has ended after issuing a render-track, combine,
\* foreground play or detached play command reports the missing-executable
\* error exactly when its last command could not be started for lack of the
\* executable, and reports the command-failed error exactly when its last
\* command ran and exited non-zero; the two reports are never the same.
C24_MissingExecutableDistinct ==
  /\ NotFoundExits \cap FailedExits = {}
  /\ (pc = "done" /\ cmds /= <<>>) =>
       LET c == cmds[Len(cmds)]
       IN  /\ c.kind \in {"render-track", "combine", "play", "play-loop"}
           /\ exit \in NotFoundExits <=> c.res = "notfound"
           /\ exit \in FailedExits <=> c.res = "nonzero"

\* A loop of the mix has rendered its tracks and combined them, and has ended
\* because the player executable is missing.
C24_Witness ==
  /\ pc = "done"
  /\ inv.cmd = "loop"
  /\ Len(cmds) > 2
  /\ cmds[Len(cmds) - 1].kind = "combine"
  /\ cmds[Len(cmds) - 1].res = "ok"
  /\ cmds[Len(cmds)].kind = "play-loop"
  /\ cmds[Len(cmds)].res = "notfound"
  /\ exit = "SoxNotFound"

\* C25: a mix or render invocation issues a play command only as its last
\* command, only for the final output path, only after one successful
\* render-track command per active track and, with several active tracks, a
\* successful combine command, and only when playback was asked for; a render
\* invocation, and a mix with --no-play, issue no play command and never get
\* to the play step.
C25_PlayAfterRender ==
  InMix =>
    /\ (inv.cmd = "render" \/ inv.no_play) =>
         (CmdsOf("play") = {} /\ pc /= "play")
    /\ (pc = "play" \/ CmdsOf("play") /= {}) =>
         LET n == Len(active)
             rendered == IF n = 1 THEN 1 ELSE n + 1
         IN  /\ inv.cmd = "mix"
             /\ ~inv.no_play
             /\ CmdsOf("render-track") = 1..n
             /\ CmdsOf("combine") = (IF n = 1 THEN {} ELSE {n + 1})
             /\ \A i \in 1..rendered : cmds[i].res = "ok"
             /\ cmds[rendered].out = OutputPath(inv)
             /\ outFile = "complete"
             /\ CmdsOf("play") \subseteq {rendered + 1}
             /\ Len(cmds) = (IF pc = "play" THEN rendered ELSE rendered + 1)
             /\ \A i \in CmdsOf("play") : cmds[i].ins = <<OutputPath(inv)>>

\* A mix of three active tracks to a caller-supplied path has been rendered,
\* combined and played.
C25_Witness ==
  /\ inv.cmd = "mix"
  /\ pc = "done"
  /\ exit = "ok"
  /\ inv.output = "out.wav"
  /\ Len(active) = 3
  /\ Len(cmds) = 5
  /\ cmds[5].kind = "play"
  /\ cmds[5].ins = <<"out.wav">>

\* a is b with some of its elements left out: the elements of a are elements
\* of b at increasing positions.
IsSubsequence(a, b) ==
  \E f \in [1..Len(a) -> 1..Len(b)] :
    /\ \A i \in 1..Len(a) : a[i] = b[f[i]]
    /\ \A i, j \in 1..Len(a) : i < j => f[i] < f[j]

\* C26: the active tracks are a subsequence of the stored track list, in the
\* solo branch and in the mute branch: any two of them are in the order they
\* are stored in; a running mix works on them in that order and issues its
\* render-track commands in that order.
C26_StorageOrder ==
  /\ IsSubsequence(get_active_tracks(tracks), tracks)
  /\ (InMix /\ projectExists) =>
       /\ IsSubsequence(active, tracks)
       /\ Len(active) > 1 =>
            IsSubsequence([i \in 1..Cardinality(CmdsOf("render-track")) |->
                             cmds[i].out],
                          [i \in 1..Len(tracks) |-> TmpPath(tracks[i].id)])

\* A mix has rendered the first and the third of three stored tracks, both
\* soloed, and left out the second, which is audible but not soloed.
C26_Witness ==
  /\ InMix
  /\ Len(tracks) = 3
  /\ tracks[1].solo /\ tracks[3].solo /\ ~tracks[2].solo
  /\ ~tracks[2].mute /\ tracks[2].source /= None
  /\ active = <<tracks[1], tracks[3]>>
  /\ CmdsOf("render-track") = {1, 2}

\* C27: in a project, a remove-effect request whose index is negative or not less than the
\* length of the track's chain, a track without a chain included, ends with
\* an error before anything is written: the track list and every chain stay
\* as they are.  With an index in range it writes the effects file once, with
\* the track's chain short of exactly the effect at the index, the rest in
\* their order, and every other chain as it was; the track list stays.
C27_RemoveEffect ==
  [][ /\ ( /\ pc = "idle"
           /\ inv'.cmd = "fx remove"
           /\ projectExists ) =>
           LET id == inv'.track_id
               index == inv'.index
               chain == get_track_effects(effects, id)
           IN  IF index < 0 \/ index >= Len(chain) \/ id \notin Ids(tracks)
               THEN /\ pc' = "done"
                    /\ exit' \in {"IndexOutOfRange", "TrackNotFound"}
                    /\ writes' = <<>>
                    /\ UNCHANGED <<projectExists, tracks, effects, torn>>
               ELSE /\ pc' = "write"
                    /\ UNCHANGED <<projectExists, tracks, effects, torn>>
                    /\ Len(writes') = 1
                    /\ writes'[1].file = "effects"
                    /\ LET new == writes'[1].data
                       IN  /\ DOMAIN new = DOMAIN effects
                           /\ \A other \in DOMAIN effects \ {id} :
                                new[other] = effects[other]
                           /\ Len(new[id]) = Len(chain) - 1
                           /\ \A j \in 1..index : new[id][j] = chain[j]
                           /\ \A j \in (index + 1)..(Len(chain) - 1) :
                                new[id][j] = chain[j + 1]
      /\ ( /\ pc = "dump"
           /\ inv.cmd = "fx remove" ) =>
           /\ effects' = writes[1].data
           /\ tracks' = tracks
           /\ pc' = "done"
           /\ exit' = "ok"
    ]_vars

\* The first effect of a chain of three has been removed: what is left is a
\* chain of two different effects, of a track next to one with a chain of its
\* own.
C27_Witness ==
  /\ pc = "done"
  /\ inv.cmd = "fx remove"
  /\ exit = "ok"
  /\ inv.index = 0
  /\ assigned = 2
  /\ DOMAIN effects = {1, 2}
  /\ Len(effects[inv.track_id]) = 2
  /\ effects[inv.track_id][1] /= effects[inv.track_id][2]
  /\ effects[2] /= <<>>

\* The ways a loop request fails once its stop step is behind it: nothing to
\* play, a target that is no track, a track without a source, a failed or
\* missing sox, a missing player.
LoopFailures ==
  {"NoActiveTracks", "ValueError", "TrackNotFound", "NoSource",
   "CalledProcessError", "FileNotFoundError", "SoxNotFound"}

\* C28: a loop request that has failed after its stop step has left no
\* handle and has started no player that stays behind; if its stop step
\* found the handle of a live process it has sent that process SIGTERM, and
\* nothing else, before it failed; if it found none it has sent no signal.
C28_FailedLoopLeavesNoHandle ==
  ( /\ pc = "done"
    /\ inv.cmd = "loop"
    /\ exit \in LoopFailures ) =>
    /\ pidFile = NoPid
    /\ proc = NoPid
    /\ CmdsOf("play-loop") \subseteq {Len(cmds)}
    /\ \A i \in CmdsOf("play-loop") : cmds[i].res = "notfound"
    /\ pid = NoPid => signals = <<>>
    /\ pid /= NoPid =>
         /\ Len(signals) = 1
         /\ signals[1].pid = pid
         /\ signals[1].sig = "SIGTERM"
         /\ signals[1].res \in {"ok", "nosuch"}

\* A loop of the mix found a live player, sent it SIGTERM, and then failed in
\* its combine command while the old player was still running.
C28_Witness ==
  /\ pc = "done"
  /\ inv.cmd = "loop"
  /\ exit = "CalledProcessError"
  /\ cmds[Len(cmds)].kind = "combine"
  /\ signals = <<[pid |-> pid, to |-> "player", sig |-> "SIGTERM",
                  res |-> "ok"]>>
  /\ procs[pid] = "player"
  /\ pidFile = NoPid

\* The render-track and combine commands, all succeeding, that cmd_mix issues
\* for the active tracks act when no --output is given.
MixPlan(act) ==
  LET out == OutputPath(Invocation("mix"))
      n == Len(act)
      renders == [i \in 1..n |->
                    RenderCmd(act[i], MixTarget(act, act[i], out), "ok")]
  IN  IF n <= 1 THEN renders
      ELSE Append(renders, CombineCmd([i \in 1..n |-> renders[i].out], out, "ok"))

\* The render-track and combine commands issued so far, without their endings.
Rendering ==
  LET issued == SelectSeq(cmds, LAMBDA c : c.kind \in {"render-track", "combine"})
  IN  [i \in 1..Len(issued) |-> [issued[i] EXCEPT !.res = "ok"]]

\* C29: a loop of the mix and a mix without --output issue the same
\* render-track and combine commands for the same project: at every moment
\* what either has issued is the beginning of the one sequence the project's
\* active tracks prescribe (inputs, volume, effect arguments, order, output
\* paths), issued before any play command, and each has issued all of it when
\* it gets to its player.
C29_LoopMixRendersAsMix ==
  ( /\ pc /= "idle"
    /\ projectExists
    /\ \/ inv.cmd = "loop" /\ inv.target = "mix"
       \/ inv.cmd = "mix" /\ inv.output = None ) =>
    LET plan == MixPlan(get_active_tracks(tracks))
    IN  /\ Len(Rendering) <= Len(plan)
        /\ Rendering = SubSeq(plan, 1, Len(Rendering))
        /\ \A i \in 1..Len(Rendering) :
             cmds[i].kind \in {"render-track", "combine"}
        /\ (pc \in {"launch", "save_open", "save_write", "play"}
              \/ Len(cmds) > Len(Rendering)) =>
             /\ Rendering = plan
             /\ \A i \in 1..Len(plan) : cmds[i].res = "ok"

\* A loop of the mix of three tracks, one of them with an effect chain, has
\* rendered and combined them and started its player.
C29_Witness ==
  /\ inv.cmd = "loop"
  /\ inv.target = "mix"
  /\ pc = "done"
  /\ exit = "ok"
  /\ Len(active) = 3
  /\ Len(cmds) = 5
  /\ cmds[2].fx = <<"reverb">>
  /\ cmds[4].kind = "combine"
  /\ cmds[4].out = MixWav
  /\ cmds[5].kind = "play-loop"

\* C30 as claimed: every SIGTERM that a stop request or the stop step of a
\* loop request delivers reaches a player that a loop of this tool started,
\* and a status request reports Playing only while such a player runs under
\* the reported pid.
C30_OnlyOwnPlayer ==
  /\ \A i \in 1..Len(signals) :
       (signals[i].sig = "SIGTERM" /\ signals[i].res = "ok") =>
         signals[i].to = "player"
  /\ (pc = "done" /\ inv.cmd = "status" /\ report.msg = "Playing") =>
       procs[report.pid] = "player"

====
